---- MODULE Spec2Model ----
(***************************************************************************)
(* Model of krotov/convergence.py: the `check_convergence` routines of     *)
(* krotov.optimize.optimize_pulses.                                        *)
(*                                                                         *)
(* A predicate is a closure built once by a constructor (Or, value_below,  *)
(* value_above, delta_below, dump_result) or one of the two module-level   *)
(* functions check_monotonic_error / check_monotonic_fidelity.  A closure  *)
(* is modelled as a record holding the captured arguments; calling it is   *)
(* an operator that takes the Result record and returns the outcome of the *)
(* call (a returned value or a raised exception), the Result record as the *)
(* call left it, and the calls it made to its collaborators.               *)
(*                                                                         *)
(* Python values are tagged records: None, a float, a str.  The numbers    *)
(* are small integers; a `limit` given as text is a digit string that      *)
(* float() parses.                                                         *)
(***************************************************************************)
EXTENDS Integers, Sequences, FiniteSets, TLC

\* ---------------------------------------------------------------- bounds
MaxIter == 3    \* iterations of the enclosing loop (iter_stop)
MaxVal == 2     \* info values are None or 0..MaxVal
MaxFuncs == 3   \* most predicates chained by one Or
MaxEvery == 2   \* largest `every` given to dump_result

\* --------------------------------------------------------- Python values
PyNone == [tag |-> "None"]
PyFloat(n) == [tag |-> "float", n |-> n]
\* a str given as a `limit`: its characters are decimal digits
PyDigits(ds) == [tag |-> "str", digits |-> ds]
\* any other str; `args` are the values a %-format or str.format put in it
PyStr(text, args) == [tag |-> "str", text |-> text, args |-> args]

\* bool(msg): None is False, a number is False iff it is 0, a str iff empty
bool(msg) ==
    CASE msg.tag = "None" -> FALSE
      [] msg.tag = "float" -> msg.n # 0
      [] msg.tag = "str" -> msg # PyStr("", <<>>) /\ msg # PyDigits(<<>>)

RECURSIVE ParseDigits(_)
ParseDigits(ds) ==
    IF ds = <<>> THEN 0
    ELSE 10 * ParseDigits(SubSeq(ds, 1, Len(ds) - 1)) + ds[Len(ds)]

\* float(limit): a float is itself, a str is parsed
float(limit) == IF limit.tag = "str" THEN ParseDigits(limit.digits) ELSE limit.n

\* outcomes of a call
Return(v) == [kind |-> "return", val |-> v]
Raise(e) == [kind |-> "raise", exc |-> e]

\* ------------------------------------------------------- value extraction
\* A spec is a path ('<field>', T[index]).  glom.glom(result, spec) fails with
\* a PathAccessError (a GlomError) naming the path when the attribute is
\* missing or the index is out of range.
Spec_(field, index) == [field |-> field, index |-> index]

PathAccessError(spec) == [type |-> "PathAccessError", spec |-> spec]

\* seq[index] for a Python index: negative counts from the end
InRange(seq, index) ==
    IF index < 0 THEN -index <= Len(seq) ELSE index < Len(seq)

Item(seq, index) ==
    IF index < 0 THEN seq[Len(seq) + index + 1] ELSE seq[index + 1]

glom(result, spec) ==
    IF spec.field \notin DOMAIN result THEN Raise(PathAccessError(spec))
    ELSE IF ~InRange(result[spec.field], spec.index)
         THEN Raise(PathAccessError(spec))
    ELSE IF spec.field = "iters"
         THEN Return(PyFloat(Item(result.iters, spec.index)))
    ELSE Return(Item(result[spec.field], spec.index))

\* the default name of a check: str(spec)
str(spec) == "('" \o spec.field \o "', T[" \o ToString(spec.index) \o "])"

\* ------------------------------------------------------------ value_below
\* What a call of a closure yields: its outcome, the Result record as the call
\* left it, and the calls of Result.dump it made (the file, what came of it).
Called(out, result, dump_calls) ==
    [out |-> out, result |-> result, dump_calls |-> dump_calls]

\* `v < x` / `v > x` on a value that is no number raises TypeError
TypeError == [type |-> "TypeError"]

value_below(limit, spec, name) ==
    [op |-> "value_below", limit |-> limit, spec |-> spec,
     name |-> IF name = PyNone THEN PyStr(str(spec), <<>>) ELSE name]

\* value_below's closure comparing with <= (the limit itself passes as below)
value_below_le(self, result) ==
    LET v == glom(result, self.spec) IN
    IF v.kind = "raise" THEN Called(v, result, <<>>)
    ELSE IF v.val.tag # "float" THEN Called(Raise(TypeError), result, <<>>)
    ELSE IF v.val.n <= float(self.limit)
         THEN Called(Return(PyStr("%s < %s", <<self.name, self.limit>>)),
                     result, <<>>)
    ELSE Called(Return(PyNone), result, <<>>)

\* value_below's closure taking the value off the record
\* (`v = result.info_vals.pop()`)
value_below_pop(self, result) ==
    LET v == glom(result, self.spec)
        popped == [result EXCEPT !.info_vals =
                       SubSeq(@, 1, Len(@) - 1)]
    IN
    IF v.kind = "raise" THEN Called(v, result, <<>>)
    ELSE IF v.val.tag # "float" THEN Called(Raise(TypeError), popped, <<>>)
    ELSE IF v.val.n < float(self.limit)
         THEN Called(Return(PyStr("%s < %s", <<self.name, self.limit>>)),
                     popped, <<>>)
    ELSE Called(Return(PyNone), popped, <<>>)

value_below_check_convergence(self, result) ==
    LET v == glom(result, self.spec) IN
    IF v.kind = "raise" THEN Called(v, result, <<>>)
    ELSE IF v.val.tag # "float" THEN Called(Raise(TypeError), result, <<>>)
    ELSE IF v.val.n < float(self.limit)
         THEN Called(Return(PyStr("%s < %s", <<self.name, self.limit>>)),
                     result, <<>>)
    ELSE Called(Return(PyNone), result, <<>>)

value_above(limit, spec, name) ==
    [op |-> "value_above", limit |-> limit, spec |-> spec,
     name |-> IF name = PyNone THEN PyStr(str(spec), <<>>) ELSE name]

value_above_check_convergence(self, result) ==
    LET v == glom(result, self.spec) IN
    IF v.kind = "raise" THEN Called(v, result, <<>>)
    ELSE IF v.val.tag # "float" THEN Called(Raise(TypeError), result, <<>>)
    ELSE IF v.val.n > float(self.limit)
         THEN Called(Return(PyStr("%s > %s", <<self.name, self.limit>>)),
                     result, <<>>)
    ELSE Called(Return(PyNone), result, <<>>)

\* ------------------------------------------------------------ delta_below
delta_below(limit, spec1, spec0, absolute_value, name) ==
    [op |-> "delta_below", limit |-> limit, spec1 |-> spec1, spec0 |-> spec0,
     absolute_value |-> absolute_value,
     name |-> IF name = PyNone
              THEN PyStr("Delta(" \o str(spec1) \o "," \o str(spec0) \o ")", <<>>)
              ELSE name]

\* the value a try/except around one extraction leaves: None when it failed
Extracted(g) == IF g.kind = "raise" THEN PyNone ELSE g.val

\* delayed_exc keeping the failure captured first (`if delayed_exc is None:
\* delayed_exc = exc` in the second handler)
delayed_exc_first(g1, g0) ==
    IF g1.kind = "raise" THEN g1.exc
    ELSE IF g0.kind = "raise" THEN g0.exc
    ELSE PyNone

\* delayed_exc after both try/except blocks: each failure assigns it
delayed_exc(g1, g0) ==
    IF g0.kind = "raise" THEN g0.exc
    ELSE IF g1.kind = "raise" THEN g1.exc
    ELSE PyNone

\* `or` where xor is meant: passes also when both values are missing
xor_or(a, b) == a \/ b

xor(a, b) == a # b

abs(x) == IF x < 0 THEN -x ELSE x

\* the comparison after the missing-data policy let the call through
delta_compare(self, v1, v0) ==
    IF v1.tag # "float" \/ v0.tag # "float" THEN Raise(TypeError)
    ELSE LET d == v1.n - v0.n
             delta == IF self.absolute_value THEN abs(d) ELSE d
         IN IF delta < float(self.limit)
            THEN Return(PyStr("%s < %s", <<self.name, self.limit>>))
            ELSE Return(PyNone)

delta_below_check_convergence(self, result) ==
    LET g1 == glom(result, self.spec1)
        g0 == glom(result, self.spec0)
        v1 == Extracted(g1)
        v0 == Extracted(g0)
        exc == delayed_exc(g1, g0)
    IN IF xor(v1 = PyNone, v0 = PyNone) THEN Called(Return(PyNone), result, <<>>)
       ELSE IF exc # PyNone THEN Called(Raise(exc), result, <<>>)
       ELSE Called(delta_compare(self, v1, v0), result, <<>>)

\* ------------------------------------------------- monotonic convergence
_monotonic_convergence ==
    delta_below(PyFloat(0), Spec_("info_vals", -2), Spec_("info_vals", -1),
                FALSE,
                PyStr("Loss of monotonic convergence; error decrease", <<>>))

_monotonic_fidelity ==
    delta_below(PyFloat(0), Spec_("info_vals", -1), Spec_("info_vals", -2),
                FALSE,
                PyStr("Loss of monotonic convergence; fidelity increase", <<>>))

check_monotonic_error(result) ==
    delta_below_check_convergence(_monotonic_convergence, result)

check_monotonic_fidelity(result) ==
    delta_below_check_convergence(_monotonic_fidelity, result)

\* ------------------------------------------------------------ dump_result
\* filename.format(iter=iteration): the pieces of the template, the field
\* {iter} replaced by the iteration number
format(filename, iteration) ==
    [tag |-> "str",
     pieces |-> [k \in DOMAIN filename |->
                   IF filename[k] = "{iter}" THEN ToString(iteration)
                   ELSE filename[k]]]

\* Result.dump(outfile): writes the file, or fails with an I/O error
DumpOutcomes == {"ok", "IOError"}

dump(result, outfile, outcome) ==
    IF outcome = "ok" THEN Return(PyNone)
    ELSE Raise([type |-> outcome, outfile |-> outfile])

ValueError == [type |-> "ValueError", text |-> "every must be > 0"]

IndexError == [type |-> "IndexError"]

dump_result(filename, every) ==
    IF every <= 0 THEN Raise(ValueError)
    ELSE Return([op |-> "dump_result", filename |-> filename, every |-> every])

\* _dump_result without the test of `iteration % every`: a dump at every call
_dump_result_always(self, result, env) ==
    IF ~InRange(result.iters, -1) THEN Called(Raise(IndexError), result, <<>>)
    ELSE LET iteration == Item(result.iters, -1)
             outfile == format(self.filename, iteration)
             d == dump(result, outfile, env.dump)
             log == <<[outfile |-> outfile, out |-> d]>>
         IN IF d.kind = "raise" /\ d.exc.type = "IOError"
            THEN Called(Return(PyStr("Could not store %s: %s",
                                     <<outfile, d.exc>>)),
                        result, log)
            ELSE IF d.kind = "raise" THEN Called(d, result, log)
            ELSE Called(Return(PyNone), result, log)

\* _dump_result without the try/except: the IOError reaches the caller
_dump_result_no_except(self, result, env) ==
    IF ~InRange(result.iters, -1) THEN Called(Raise(IndexError), result, <<>>)
    ELSE LET iteration == Item(result.iters, -1) IN
         IF iteration % self.every = 0
         THEN LET outfile == format(self.filename, iteration)
                  d == dump(result, outfile, env.dump)
                  log == <<[outfile |-> outfile, out |-> d]>>
              IN IF d.kind = "raise" THEN Called(d, result, log)
                 ELSE Called(Return(PyNone), result, log)
         ELSE Called(Return(PyNone), result, <<>>)

_dump_result(self, result, env) ==
    IF ~InRange(result.iters, -1) THEN Called(Raise(IndexError), result, <<>>)
    ELSE LET iteration == Item(result.iters, -1) IN
         IF iteration % self.every = 0
         THEN LET outfile == format(self.filename, iteration)
                  d == dump(result, outfile, env.dump)
                  log == <<[outfile |-> outfile, out |-> d]>>
              IN IF d.kind = "raise" /\ d.exc.type = "IOError"
                 THEN Called(Return(PyStr("Could not store %s: %s",
                                          <<outfile, d.exc>>)),
                             result, log)
                 ELSE IF d.kind = "raise" THEN Called(d, result, log)
                 ELSE Called(Return(PyNone), result, log)
         ELSE Called(Return(PyNone), result, <<>>)

\* (only IOError is caught: any other exception of Result.dump is the
\* caller's)

\* --------------------------------------------------------------------- Or
\* A function passed to Or that is none of this module's: it returns what the
\* environment has it return at this call.
Stub(id) == [op |-> "stub", id |-> id]

\* func(result) for a function that is not itself an Or
Call(func, result, env) ==
    CASE func.op = "stub" -> Called(Return(env.stub[func.id]), result, <<>>)
      [] func.op = "value_below" -> value_below_check_convergence(func, result)
      [] func.op = "value_above" -> value_above_check_convergence(func, result)
      [] func.op = "delta_below" -> delta_below_check_convergence(func, result)
      [] func.op = "check_monotonic_error" -> check_monotonic_error(result)
      [] func.op = "check_monotonic_fidelity" -> check_monotonic_fidelity(result)
      [] func.op = "dump_result" -> _dump_result(func, result, env)

Or(funcs) == [op |-> "Or", funcs |-> funcs]

\* Or_loop stopping at the first result that is not None (`if msg is not
\* None`), so that an empty message stops the chain
RECURSIVE Or_loop_is_not_None(_, _, _, _, _, _)
Or_loop_is_not_None(funcs, k, result, env, calls, dump_calls) ==
    IF k > Len(funcs)
    THEN [out |-> Return(PyNone), result |-> result, calls |-> calls,
          dump_calls |-> dump_calls]
    ELSE LET c == Call(funcs[k], result, env)
             log == Append(calls, [func |-> k, out |-> c.out])
             dumps == dump_calls \o c.dump_calls
         IN IF c.out.kind = "raise" \/ c.out.val # PyNone
            THEN [out |-> c.out, result |-> c.result, calls |-> log,
                  dump_calls |-> dumps]
            ELSE Or_loop_is_not_None(funcs, k + 1, c.result, env, log, dumps)

\* Or_loop calling every function before it picks the first truthy result
\* (`msgs = [func(result) for func in funcs]`); `found` is that result
RECURSIVE Or_eager(_, _, _, _, _, _, _)
Or_eager(funcs, k, result, env, calls, dump_calls, found) ==
    IF k > Len(funcs)
    THEN [out |-> found, result |-> result, calls |-> calls,
          dump_calls |-> dump_calls]
    ELSE LET c == Call(funcs[k], result, env)
             log == Append(calls, [func |-> k, out |-> c.out])
             dumps == dump_calls \o c.dump_calls
         IN IF c.out.kind = "raise"
            THEN [out |-> c.out, result |-> c.result, calls |-> log,
                  dump_calls |-> dumps]
            ELSE Or_eager(funcs, k + 1, c.result, env, log, dumps,
                          IF found = Return(PyNone) /\ bool(c.out.val)
                          THEN Return(c.out.val) ELSE found)

Or_loop_eager(funcs, k, result, env, calls, dump_calls) ==
    Or_eager(funcs, k, result, env, calls, dump_calls, Return(PyNone))

\* the for loop of Or's closure from funcs[k] on; `calls` logs each function
\* called and what came of it
RECURSIVE Or_loop(_, _, _, _, _, _)
Or_loop(funcs, k, result, env, calls, dump_calls) ==
    IF k > Len(funcs)
    THEN [out |-> Return(PyNone), result |-> result, calls |-> calls,
          dump_calls |-> dump_calls]
    ELSE LET c == Call(funcs[k], result, env)
             log == Append(calls, [func |-> k, out |-> c.out])
             dumps == dump_calls \o c.dump_calls
         IN IF c.out.kind = "raise"
            THEN [out |-> c.out, result |-> c.result, calls |-> log,
                  dump_calls |-> dumps]
            ELSE IF bool(c.out.val) = TRUE
            THEN [out |-> Return(c.out.val), result |-> c.result,
                  calls |-> log, dump_calls |-> dumps]
            ELSE Or_loop(funcs, k + 1, c.result, env, log, dumps)

Or_check_convergence(self, result, env) ==
    Or_loop(self.funcs, 1, result, env, <<>>, <<>>)

\* ------------------------------------------------- the predicates checked
DefaultSpec == Spec_("info_vals", -1)

Limits == {PyFloat(1), PyDigits(<<1>>), PyDigits(<<0, 2>>)}

Names == {PyNone, PyStr("J_T", <<>>)}

\* (spec1, spec0) of the delta_below closures: the default, the default
\* flipped, one side an attribute Result does not have, both sides such
\* attributes, and the iteration numbers against the info values
SpecPairs ==
    {<<Spec_("info_vals", -1), Spec_("info_vals", -2)>>,
     <<Spec_("info_vals", -2), Spec_("info_vals", -1)>>,
     <<Spec_("info_vals", -1), Spec_("J_T_vals", -1)>>,
     <<Spec_("J_T_vals", -1), Spec_("J_T_vals", -2)>>,
     <<Spec_("iters", -1), Spec_("info_vals", -1)>>}

Filenames == {<<"oct_result.dump">>, <<"oct_result_", "{iter}", ".dump">>}

Thresholds ==
    {value_below(l, DefaultSpec, n) : l \in Limits, n \in Names}
    \cup {value_above(l, DefaultSpec, n) : l \in Limits, n \in Names}

Deltas ==
    {delta_below(l, sp[1], sp[2], a, PyNone) :
        l \in {PyFloat(1), PyDigits(<<0, 2>>)}, sp \in SpecPairs, a \in BOOLEAN}

Monotonics == {[op |-> "check_monotonic_error"],
               [op |-> "check_monotonic_fidelity"]}

\* what precedes dump_result in an Or
Before ==
    {Stub(1), value_below(PyDigits(<<1>>), DefaultSpec, PyStr("J_T", <<>>)),
     delta_below(PyFloat(1), Spec_("info_vals", -1), Spec_("info_vals", -2),
                 TRUE, PyNone),
     [op |-> "check_monotonic_error"]}

Ors ==
    {Or([k \in 1..n |-> Stub(k)]) : n \in 0..MaxFuncs}
    \cup {Or(<<p, dump_result(<<"oct_result.dump">>, e).val>>) :
             p \in Before, e \in 1..MaxEvery}
    \cup {Or(<<value_above(PyFloat(1), DefaultSpec, PyNone),
              [op |-> "check_monotonic_fidelity"],
              dump_result(<<"oct_result_", "{iter}", ".dump">>, 1).val>>)}

\* every construction tried: a closure, or the constructor's ValueError
Built ==
    {Return(p) : p \in Thresholds \cup Deltas \cup Monotonics \cup Ors}
    \cup {dump_result(f, e) : f \in Filenames, e \in 0..MaxEvery}

InfoValues == {PyNone} \cup {PyFloat(n) : n \in 0..MaxVal}

StubResults ==
    {PyNone, PyStr("", <<>>), PyStr("stop A", <<>>), PyStr("stop B", <<>>)}

StubIds(p) ==
    IF p.op = "stub" THEN {p.id}
    ELSE IF p.op = "Or"
         THEN {p.funcs[k].id : k \in {j \in DOMAIN p.funcs : p.funcs[j].op = "stub"}}
    ELSE {}

HasDump(p) ==
    \/ p.op = "dump_result"
    \/ p.op = "Or" /\ \E k \in DOMAIN p.funcs : p.funcs[k].op = "dump_result"

\* what the collaborators of p do at one call
Envs(p) ==
    [stub : [StubIds(p) -> StubResults],
     dump : IF HasDump(p) THEN DumpOutcomes ELSE {"ok"}]

\* ------------------------------------------------------------------ state
VARIABLES
    check_convergence,  \* the closure passed to optimize_pulses
    result,             \* the Result record: iters, info_vals
    pc,                 \* "loop", "check", "done"
    ret,                \* outcome of the call of check_convergence, if made
    calls,              \* the calls Or made at that call
    dump_calls          \* the calls of Result.dump made at that call

vars == <<check_convergence, result, pc, ret, calls, dump_calls>>

NoCall == [kind |-> "nocall"]

Init ==
    /\ result = [iters |-> <<>>, info_vals |-> <<>>]
    /\ calls = <<>>
    /\ dump_calls = <<>>
    /\ \E b \in Built :
         IF b.kind = "raise"
         THEN check_convergence = PyNone /\ pc = "done" /\ ret = b
         ELSE check_convergence = b.val /\ pc = "loop" /\ ret = NoCall

\* one iteration of optimize_pulses up to the call of check_convergence: the
\* iteration number is appended, and the info_hook's value if there is one
Iterate ==
    /\ pc = "loop"
    /\ Len(result.iters) < MaxIter
    /\ \E vs \in {<<>>} \cup {<<v>> : v \in InfoValues} :
         result' = [iters |-> Append(result.iters, Len(result.iters)),
                    info_vals |-> result.info_vals \o vs]
    /\ pc' = "check"
    /\ ret' = NoCall
    /\ calls' = <<>>
    /\ dump_calls' = <<>>
    /\ UNCHANGED check_convergence

\* check_convergence(result)
Invoke(p, r, env) ==
    IF p.op = "Or" THEN Or_check_convergence(p, r, env)
    ELSE [calls |-> <<>>] @@ Call(p, r, env)

CheckConvergence ==
    /\ pc = "check"
    /\ \E env \in Envs(check_convergence) :
         LET c == Invoke(check_convergence, result, env) IN
         /\ result' = c.result
         /\ ret' = c.out
         /\ calls' = c.calls
         /\ dump_calls' = c.dump_calls
         /\ pc' = IF c.out.kind = "raise" THEN "done"
                  ELSE IF bool(c.out.val) THEN "done"
                  ELSE "loop"
    /\ UNCHANGED check_convergence

Next == Iterate \/ CheckConvergence

Spec == Init /\ [][Next]_vars

\* ----------------------------------------------------------------- claims
\* check_convergence was called on the record as it stands
Checked == pc # "check" /\ result.iters # <<>> /\ ret # NoCall

IsOp(op) == Checked /\ check_convergence.op = op

Falsy(out) == out.kind = "return" /\ ~bool(out.val)

Truthy(out) == out.kind = "return" /\ bool(out.val)

\* a function of this module whose result depends on the record alone
Pure(func) == func.op \notin {"stub", "dump_result"}

NoEnv == [stub |-> <<>>, dump |-> "ok"]

\* C1: the closure built by Or calls its functions in the order given; it
\* returns the result of the first whose result is truthy and calls none
\* after it; when every result is falsy (also when there is no function) it
\* returns None.
C1_OrShortCircuit ==
    IsOp("Or") =>
        LET funcs == check_convergence.funcs
            m == Len(calls)
        IN /\ m <= Len(funcs)
           /\ \A k \in 1..m :
                /\ calls[k].func = k
                /\ Pure(funcs[k]) =>
                     calls[k].out = Call(funcs[k], result, NoEnv).out
           /\ \A k \in 1..(m - 1) : Falsy(calls[k].out)
           /\ (m > 0 /\ Truthy(calls[m].out)) => ret = calls[m].out
           /\ (\A k \in 1..m : Falsy(calls[k].out)) =>
                (m = Len(funcs) /\ ret = Return(PyNone))

\* three functions: the first returned an empty message, the second a
\* message, the third was not called
C1_Witness ==
    /\ IsOp("Or")
    /\ Len(check_convergence.funcs) = 3
    /\ Len(calls) = 2
    /\ calls[1].out = Return(PyStr("", <<>>))
    /\ ret = Return(PyStr("stop B", <<>>))

\* the position of dump_result in an Or that has it after other functions
DumpAt(funcs) ==
    {j \in DOMAIN funcs : j > 1 /\ funcs[j].op = "dump_result"}

\* C10: in Or(p, ..., dump_result(f, every)) Result.dump is called at an
\* iteration only if every function before dump_result returned a falsy
\* result at that iteration; when one of them signals a stop nothing is
\* dumped at that iteration, and the loop ends there.
C10_NoDumpOnStop ==
    IsOp("Or") =>
        \A j \in DumpAt(check_convergence.funcs) :
            /\ dump_calls # <<>> =>
                 \A k \in 1..(j - 1) :
                    /\ k <= Len(calls)
                    /\ Falsy(calls[k].out)
                    /\ Pure(check_convergence.funcs[k]) =>
                         Falsy(Call(check_convergence.funcs[k], result,
                                    NoEnv).out)
            /\ (\E k \in 1..(j - 1) :
                    /\ Pure(check_convergence.funcs[k])
                    /\ Truthy(Call(check_convergence.funcs[k], result,
                                   NoEnv).out)) =>
                 (dump_calls = <<>> /\ pc = "done")
            /\ (\E k \in 1..(j - 1) : k <= Len(calls) /\ Truthy(calls[k].out))
                 => (dump_calls = <<>> /\ pc = "done")

\* value_below stops the loop at iteration 2, which every = 2 divides:
\* nothing is dumped
C10_Witness ==
    /\ IsOp("Or")
    /\ Len(check_convergence.funcs) = 2
    /\ check_convergence.funcs[1].op = "value_below"
    /\ check_convergence.funcs[2].op = "dump_result"
    /\ check_convergence.funcs[2].every = 2
    /\ Item(result.iters, -1) = 2
    /\ Truthy(ret)
    /\ dump_calls = <<>>
    /\ pc = "done"

Failed(g) == g.kind = "raise"

\* C2: a closure built by delta_below returns None, and raises nothing, on
\* any record where exactly one of the extractions of spec1 and spec0 fails
\* and the other succeeds.
C2_OneSidedPasses ==
    IsOp("delta_below") =>
        LET g1 == glom(result, check_convergence.spec1)
            g0 == glom(result, check_convergence.spec0)
        IN (Failed(g1) # Failed(g0)) => ret = Return(PyNone)

IsMonotonic ==
    /\ Checked
    /\ check_convergence.op \in {"check_monotonic_error",
                                 "check_monotonic_fidelity"}

\* C5: on a record with at least two info values (numbers),
\* check_monotonic_error returns None if the last is smaller than the
\* last-but-one and a message if it is not.
C5_MonotonicError ==
    (/\ IsOp("check_monotonic_error")
     /\ Len(result.info_vals) >= 2
     /\ Item(result.info_vals, -1).tag = "float"
     /\ Item(result.info_vals, -2).tag = "float") =>
        IF Item(result.info_vals, -1).n < Item(result.info_vals, -2).n
        THEN ret = Return(PyNone)
        ELSE Truthy(ret)

IsThreshold ==
    Checked /\ check_convergence.op \in {"value_below", "value_above"}

\* the message of a threshold check: "{name} < {limit}", "{name} > {limit}"
ThresholdMessage(self) ==
    IF self.op = "value_below"
    THEN PyStr("%s < %s", <<self.name, self.limit>>)
    ELSE PyStr("%s > %s", <<self.name, self.limit>>)

\* C4: when the extracted value v is there (a number), value_below's closure
\* returns "{name} < {limit}" iff v < limit and value_above's closure returns
\* "{name} > {limit}" iff v > limit; otherwise, also when v equals the limit,
\* each returns None.
C4_ThresholdStrict ==
    IsThreshold =>
        LET v == glom(result, check_convergence.spec)
            limit == float(check_convergence.limit)
        IN (~Failed(v) /\ v.val.tag = "float") =>
              IF \/ check_convergence.op = "value_below" /\ v.val.n < limit
                 \/ check_convergence.op = "value_above" /\ v.val.n > limit
              THEN ret = Return(ThresholdMessage(check_convergence))
              ELSE ret = Return(PyNone)

\* value_below with the limit given as the text "02" on a last info value of
\* 2: None, and the loop goes on
C4_Witness ==
    /\ IsOp("value_below")
    /\ check_convergence.limit = PyDigits(<<0, 2>>)
    /\ Item(result.info_vals, -1) = PyFloat(2)
    /\ ret = Return(PyNone)
    /\ pc = "loop"

\* C7: a closure built by dump_result with every > 0, called once per
\* iteration: when every does not divide the current iteration Result.dump
\* is not called and the closure returns None; when it does, Result.dump is
\* called exactly once, with the formatted file name, and if that call
\* succeeds the closure returns None.
C7_DumpEvery ==
    IsOp("dump_result") =>
        LET iteration == Item(result.iters, -1) IN
        IF iteration % check_convergence.every # 0
        THEN dump_calls = <<>> /\ ret = Return(PyNone)
        ELSE /\ Len(dump_calls) = 1
             /\ dump_calls[1].outfile =
                    format(check_convergence.filename, iteration)
             /\ ~Failed(dump_calls[1].out) => ret = Return(PyNone)

\* every = 2: nothing was dumped at iteration 1, and iteration 2 is dumped
\* to oct_result_2.dump
C7_Witness ==
    /\ IsOp("dump_result")
    /\ check_convergence.every = 2
    /\ result.iters = <<0, 1, 2>>
    /\ dump_calls = <<[outfile |-> [tag |-> "str",
                                    pieces |-> <<"oct_result_", "2", ".dump">>],
                       out |-> Return(PyNone)]>>
    /\ ret = Return(PyNone)

\* the message of a failed dump names the file
CouldNotStore(outfile, out) ==
    /\ Truthy(out)
    /\ out.val.text = "Could not store %s: %s"
    /\ out.val.args[1] = outfile

\* C8: when every divides the current iteration and Result.dump fails by
\* raising, the closure returns a message that holds the file name; the
\* exception does not reach the caller, and the loop ends on the message.
C8_DumpFailureIsMessage ==
    IsOp("dump_result") =>
        LET outfile == format(check_convergence.filename,
                              Item(result.iters, -1))
        IN (dump_calls # <<>> /\ Failed(dump_calls[1].out)) =>
               (CouldNotStore(outfile, ret) /\ pc = "done")

\* the dump to oct_result_1.dump raised IOError: a message, the loop is over
C8_Witness ==
    /\ IsOp("dump_result")
    /\ Len(dump_calls) = 1
    /\ dump_calls[1].out.kind = "raise"
    /\ dump_calls[1].out.exc.type = "IOError"
    /\ dump_calls[1].outfile.pieces = <<"oct_result_", "1", ".dump">>
    /\ Truthy(ret)
    /\ pc = "done"

\* C9: no call of a closure changes the Result record, whether it returns
\* None, returns a message or raises; and Result.dump is called by no closure
\* but dump_result's.
C9_RecordUnchanged ==
    [][pc = "check" =>
         /\ result' = result
         /\ dump_calls' # <<>> => HasDump(check_convergence)]_vars

\* a call on a record of two iterations and two info values that returned a
\* message and ended the loop
C9_Witness ==
    /\ Checked
    /\ pc = "done"
    /\ Len(result.iters) = 2
    /\ Len(result.info_vals) = 2
    /\ check_convergence.op = "value_below"
    /\ Truthy(ret)

====
